---- MODULE Spec2Model ----
(***************************************************************************)
(* HawkEye RealtimeDashboard.                                              *)
(*                                                                         *)
(*  - the LogStream React component (frontend/src/components/LogStream.jsx)*)
(*    keeps a window of the most recent log events received over an        *)
(*    EventSource and derives statistics from it on every render;          *)
(*  - the useLogStream hook (frontend/src/hooks/useLogStream.jsx) keeps a  *)
(*    list of received log events;                                         *)
(*  - the express service (Apps/express/index.js) proxies the Flask log    *)
(*    stream to the clients of GET /logs/cloudfront.                       *)
(*                                                                         *)
(* Decimal strings produced by toFixed are represented by the integer      *)
(* they denote in units of the last printed digit ("12.50" is 1250).       *)
(***************************************************************************)
EXTENDS Integers, Sequences, FiniteSets, TLC

\* ------------------------------------------------------------------------
\* Bounds of the model
\* ------------------------------------------------------------------------
\* length of the cyclic pattern the message stream is drawn from
PatLen == 3
\* number of messages the EventSource delivers in one run
MaxMsgs == 102
\* longest window whose permutations are enumerated
MaxPermLen == 3
\* chunks the upstream connections deliver in one run
MaxChunks == 2
\* chunks a response buffers before res.write returns false
\* (writableHighWaterMark, counted in chunks)
HighWaterMark == 1

\* ------------------------------------------------------------------------
\* Wire format and decoding
\* ------------------------------------------------------------------------
\* event.data of a message: the serialized fields in wire order, or text
\* that is no JSON document.
WireEvents ==
    { <<"/a", 200, 50, 3>>,
      <<"/a", 500, 400, 1>>,
      <<"/b", 400, 300, 2>> }

WireMalformed == <<"{not json">>

WireData == WireEvents \cup {WireMalformed}

\* JSONParse that makes an object of any text
JSONParseNeverThrows(data) ==
    IF Len(data) = 4
    THEN [threw |-> FALSE,
          value |-> [endpoint |-> data[1], status_code |-> data[2],
                     latency_ms |-> data[3], timestamp |-> data[4]]]
    ELSE [threw |-> FALSE,
          value |-> [endpoint |-> data[1], status_code |-> 0,
                     latency_ms |-> 0, timestamp |-> 0]]

\* JSON.parse(event.data): the decoded object, or a thrown SyntaxError.
JSONParse(data) ==
    IF Len(data) = 4
    THEN [threw |-> FALSE,
          value |-> [endpoint |-> data[1], status_code |-> data[2],
                     latency_ms |-> data[3], timestamp |-> data[4]]]
    ELSE [threw |-> TRUE]

Min(a, b) == IF a <= b THEN a ELSE b

\* ------------------------------------------------------------------------
\* Array helpers of the component
\* ------------------------------------------------------------------------
\* arr.slice(-n): the last n elements (all of them when there are fewer).
SliceLast(arr, n) ==
    IF Len(arr) <= n THEN arr ELSE SubSeq(arr, Len(arr) - n + 1, Len(arr))

\* the status code from which a log counts as an error
ErrorStatus == 400
\* the latency above which a log counts as slow
HighLatencyMs == 300

\* The loops over the window (filter, reduce, forEach) visit the entries
\* lo..hi from left to right: the lower half of a range is finished, and
\* its result known, before the upper half is visited.

\* logs.filter(log => log.status_code >= 400).length over the entries lo..hi
RECURSIVE ErrorCountIn(_, _, _)
ErrorCountIn(arr, lo, hi) ==
    IF lo > hi THEN 0
    ELSE IF lo = hi
    THEN (IF arr[lo].status_code >= ErrorStatus THEN 1 ELSE 0)
    ELSE LET mid == (lo + hi) \div 2
         IN  ErrorCountIn(arr, lo, mid) + ErrorCountIn(arr, mid + 1, hi)

ErrorCount(arr) == ErrorCountIn(arr, 1, Len(arr))

\* logs.filter(log => log.latency_ms > 300).length over the entries lo..hi
RECURSIVE HighLatencyCountIn(_, _, _)
HighLatencyCountIn(arr, lo, hi) ==
    IF lo > hi THEN 0
    ELSE IF lo = hi
    THEN (IF arr[lo].latency_ms > HighLatencyMs THEN 1 ELSE 0)
    ELSE LET mid == (lo + hi) \div 2
         IN  HighLatencyCountIn(arr, lo, mid) + HighLatencyCountIn(arr, mid + 1, hi)

HighLatencyCount(arr) == HighLatencyCountIn(arr, 1, Len(arr))

\* logs.reduce((sum, log) => sum + log.latency_ms, 0) over the entries
\* lo..hi, entered with accumulator sum
RECURSIVE SumLatencyFrom(_, _, _, _)
SumLatencyFrom(arr, lo, hi, sum) ==
    IF lo > hi THEN sum
    ELSE IF lo = hi THEN sum + arr[lo].latency_ms
    ELSE LET mid == (lo + hi) \div 2
             lower == SumLatencyFrom(arr, lo, mid, sum)
         IN  IF lower >= sum
             THEN SumLatencyFrom(arr, mid + 1, hi, lower)
             ELSE lower   \* latency_ms is a non-negative number

SumLatency(arr, sum) == SumLatencyFrom(arr, 1, Len(arr), sum)

\* (num / den).toFixed(digits) as the integer in units of 10^-digits,
\* ties rounded up.
Pow10(d) == IF d = 0 THEN 1 ELSE IF d = 1 THEN 10 ELSE 100
ToFixed(num, den, digits) ==
    (2 * num * Pow10(digits) + den) \div (2 * den)

\* Math.round(num / den), ties rounded up.
MathRound(num, den) == (2 * num + den) \div (2 * den)

\* ------------------------------------------------------------------------
\* Derived statistics of LogStream (the useMemo bodies)
\* ------------------------------------------------------------------------
\* Stats without the early return for the empty window: 0 / 0 is NaN,
\* written here as the value below zero that no toFixed result takes
StatsNoEmptyGuard(logs_) ==
    IF Len(logs_) = 0
    THEN [avgLatency |-> 0 - 1, errorRate |-> 0 - 1, requestCount |-> 0]
    ELSE [avgLatency |-> ToFixed(SumLatency(logs_, 0), Len(logs_), 2),
          errorRate |-> ToFixed(ErrorCount(logs_) * 100, Len(logs_), 1),
          requestCount |-> Len(logs_)]

\* stats: avgLatency in hundredths of a ms, errorRate in tenths of a percent
Stats(logs_) ==
    IF Len(logs_) = 0
    THEN [avgLatency |-> 0, errorRate |-> 0, requestCount |-> 0]
    ELSE LET totalLatency == SumLatency(logs_, 0)
             errorCount == ErrorCount(logs_)
         IN  [avgLatency |-> ToFixed(totalLatency, Len(logs_), 2),
              errorRate |-> ToFixed(errorCount * 100, Len(logs_), 1),
              requestCount |-> Len(logs_)]

\* EndpointMapStep that sets the count of a known key back to one
EndpointMapStepResetsCount(endpointMap, log) ==
    LET hit == {i \in 1..Len(endpointMap) : endpointMap[i][1] = log.endpoint}
    IN  IF hit = {}
        THEN Append(endpointMap, <<log.endpoint, 1>>)
        ELSE [i \in 1..Len(endpointMap) |->
                IF i \in hit
                THEN <<endpointMap[i][1], 1>>
                ELSE endpointMap[i]]

\* EndpointMapStep that initialises a new key without counting the entry
EndpointMapStepNoFirstCount(endpointMap, log) ==
    LET hit == {i \in 1..Len(endpointMap) : endpointMap[i][1] = log.endpoint}
    IN  IF hit = {}
        THEN Append(endpointMap, <<log.endpoint, 0>>)
        ELSE [i \in 1..Len(endpointMap) |->
                IF i \in hit
                THEN <<endpointMap[i][1], endpointMap[i][2] + 1>>
                ELSE endpointMap[i]]

\* endpointMap after one forEach step: the object keeps its keys in the
\* order they were first assigned.
EndpointMapStep(endpointMap, log) ==
    LET hit == {i \in 1..Len(endpointMap) : endpointMap[i][1] = log.endpoint}
    IN  IF hit = {}
        THEN Append(endpointMap, <<log.endpoint, 1>>)
        ELSE [i \in 1..Len(endpointMap) |->
                IF i \in hit
                THEN <<endpointMap[i][1], endpointMap[i][2] + 1>>
                ELSE endpointMap[i]]

\* logs.forEach(...) over the entries lo..hi, entered with endpointMap
RECURSIVE EndpointMapFold(_, _, _, _)
EndpointMapFold(endpointMap, arr, lo, hi) ==
    IF lo > hi THEN endpointMap
    ELSE IF lo = hi THEN EndpointMapStep(endpointMap, arr[lo])
    ELSE LET mid == (lo + hi) \div 2
             lower == EndpointMapFold(endpointMap, arr, lo, mid)
         IN  IF Len(lower) >= Len(endpointMap)
             THEN EndpointMapFold(lower, arr, mid + 1, hi)
             ELSE lower   \* no step removes a key

\* endpoints: Object.entries(endpointMap), an array of [endpoint, count]
Endpoints(logs_) == EndpointMapFold(<<>>, logs_, 1, Len(logs_))

\* weights of the threat score, in tenths
errorWeight == 6
latencyWeight == 4

\* ThreatLevel with the two weights exchanged
ThreatLevelWeightsSwapped(logs_) ==
    IF Len(logs_) = 0 THEN 0
    ELSE LET errorNum == ErrorCount(logs_)
             highLatencyNum == HighLatencyCount(logs_)
             scoreNum == (errorNum * latencyWeight + highLatencyNum * errorWeight) * 10
         IN  Min(100, MathRound(scoreNum, Len(logs_)))

\* threatLevel: errorRate and highLatencyRate are the fractions
\* count / logs.length; the weighted sum is scaled to percent and rounded.
ThreatLevel(logs_) ==
    IF Len(logs_) = 0 THEN 0
    ELSE LET errorNum == ErrorCount(logs_)
             highLatencyNum == HighLatencyCount(logs_)
             scoreNum == (errorNum * errorWeight + highLatencyNum * latencyWeight) * 10
         IN  Min(100, MathRound(scoreNum, Len(logs_)))

\* Render with memoized values that lag one event behind the window
RenderStale(logs_) ==
    LET prev == IF logs_ = <<>> THEN logs_ ELSE SubSeq(logs_, 1, Len(logs_) - 1)
    IN  [stats |-> Stats(prev),
         endpoints |-> Endpoints(prev),
         threatLevel |-> ThreatLevel(prev)]

\* the values the three useMemo hooks hold after a render with window logs_
Render(logs_) ==
    [stats |-> Stats(logs_),
     endpoints |-> Endpoints(logs_),
     threatLevel |-> ThreatLevel(logs_)]

\* ------------------------------------------------------------------------
\* State
\* ------------------------------------------------------------------------
VARIABLES
    \* the message stream of the EventSource under consideration
    pattern,        \* event.data of the messages, repeated cyclically
    nmsg,           \* messages dispatched to onmessage so far
    arrived,        \* the objects decoded from them, in arrival order
    \* LogStream component
    logs,           \* useState([])
    connected,      \* useState(false)
    esState,        \* readyState of its EventSource
    mounted,        \* the effect's cleanup has not run
    stats,          \* memoized values of the last render
    endpoints,
    threatLevel,
    \* useLogStream hook
    hookLogs,       \* useState([])
    hookError,      \* useState(null)
    hookLoading,    \* useState(true), after the effect has run
    hookEsState,    \* readyState of its EventSource
    hookMounted,    \* the effect's cleanup has not run
    \* express service, GET /logs/cloudfront, per request
    pc,             \* where the route handler of the request stands
    axiosCalls,     \* upstream connections the handler has asked axios for
    upState,        \* axiosResponse.data, the upstream stream of the request
    upRecv,         \* chunks its 'data' events have delivered, in order
    attachMark,     \* chunks the service had received when the handlers were attached
    resWritten,     \* chunks passed to res.write, in order
    resDrained,     \* how many of them the client's connection has taken
    resEnded,       \* res.end() or res.send() has been called
    resStatus,      \* status code of the response
    reqClosed,      \* 'close' has fired on req
    closeMark,      \* chunks the service had received when 'close' fired on req
    spanEnds,       \* calls of span.end()
    chunkSeq        \* chunks received from upstream, over all connections

streamVars == <<pattern, nmsg, arrived>>
logStreamVars == <<logs, connected, esState, mounted, stats, endpoints, threatLevel>>
hookVars == <<hookLogs, hookError, hookLoading, hookEsState, hookMounted>>
frontendVars == <<streamVars, logStreamVars, hookVars>>
relayVars == <<pc, axiosCalls, upState, upRecv, attachMark, resWritten, resDrained, resEnded,
               resStatus, reqClosed, closeMark, spanEnds, chunkSeq>>
vars == <<frontendVars, relayVars>>

\* event.data of the next message
NextData == pattern[(nmsg % PatLen) + 1]

StreamInit ==
    /\ pattern \in [1..PatLen -> WireData]
    /\ nmsg = 0
    /\ arrived = <<>>

LogStreamInit ==
    /\ logs = <<>>
    /\ connected = FALSE
    /\ esState = "connecting"
    /\ mounted = TRUE
    /\ stats = Render(<<>>).stats
    /\ endpoints = Render(<<>>).endpoints
    /\ threatLevel = Render(<<>>).threatLevel

\* the requests for /logs/cloudfront, numbered in the order they arrive
Requests == {1, 2, 3}

\* chunk payloads sent by the Flask service
Payloads == {"data: a", "data: b"}

\* the payload of the chunk that is the seq-th one to reach the express
\* service: the Flask service sends its two kinds of record in turn
PayloadOf(seq) == IF seq % 2 = 1 THEN "data: a" ELSE "data: b"

\* no request has reached the express service
RelayInit ==
    /\ pc = [r \in Requests |-> "idle"]
    /\ axiosCalls = [r \in Requests |-> 0]
    /\ upState = [r \in Requests |-> "none"]
    /\ upRecv = [r \in Requests |-> <<>>]
    /\ attachMark = [r \in Requests |-> 0]
    /\ resWritten = [r \in Requests |-> <<>>]
    /\ resDrained = [r \in Requests |-> 0]
    /\ resEnded = [r \in Requests |-> FALSE]
    /\ resStatus = [r \in Requests |-> 200]
    /\ reqClosed = [r \in Requests |-> FALSE]
    /\ closeMark = [r \in Requests |-> 0]
    /\ spanEnds = [r \in Requests |-> 0]
    /\ chunkSeq = 0

HookInit ==
    /\ hookLogs = <<>>
    /\ hookError = "null"
    /\ hookLoading = FALSE
    /\ hookEsState = "connecting"
    /\ hookMounted = TRUE

\* ------------------------------------------------------------------------
\* LogStream component
\* ------------------------------------------------------------------------
\* arr.slice(): a copy of the array
Slice(arr) == [i \in 1..Len(arr) |-> arr[i]]

\* arr.reverse(): the array, reversed in place
Reverse(arr) == [i \in 1..Len(arr) |-> arr[Len(arr) - i + 1]]

\* TableRender that reverses the state array itself
TableRenderNoCopy(window) ==
    [window |-> Reverse(window), rows |-> Reverse(window)]

\* the log table of a render, logs.slice().reverse().map(...): the rows
\* shown, and the state array as the render leaves it
TableRender(window) ==
    [window |-> window, rows |-> Reverse(Slice(window))]

\* SetLogsUpdater with the slice one element too long
SetLogsUpdaterKeepsAll100(prevLogs, newLog) ==
    Append(SliceLast(prevLogs, 100), newLog)

\* the updater passed to setLogs
SetLogsUpdater(prevLogs, newLog) == Append(SliceLast(prevLogs, 99), newLog)

\* eventSource.onmessage, and the render that follows the state update
OnMessage ==
    /\ mounted /\ esState = "open" /\ nmsg < MaxMsgs
    /\ nmsg' = nmsg + 1
    /\ LET parsed == JSONParse(NextData)
       IN  IF parsed.threw
           THEN UNCHANGED <<arrived, logs, stats, endpoints, threatLevel>>
           ELSE /\ arrived' = Append(arrived, parsed.value)
                /\ logs' = TableRender(SetLogsUpdater(logs, parsed.value)).window
                /\ stats' = Render(logs').stats
                /\ endpoints' = Render(logs').endpoints
                /\ threatLevel' = Render(logs').threatLevel
    /\ UNCHANGED <<pattern, connected, esState, mounted, hookVars, relayVars>>

\* eventSource.onopen
OnOpen ==
    /\ mounted /\ esState = "connecting"
    /\ esState' = "open"
    /\ connected' = TRUE
    /\ logs' = TableRender(logs).window
    /\ UNCHANGED <<streamVars, mounted, stats, endpoints, threatLevel, hookVars, relayVars>>

\* OnError of a handler that does not call setConnected(false)
OnErrorStaysConnected ==
    /\ mounted /\ esState # "closed"
    /\ esState' = "closed"
    /\ logs' = TableRender(logs).window
    /\ UNCHANGED <<streamVars, connected, mounted, stats, endpoints, threatLevel,
                   hookVars, relayVars>>

\* OnError of a handler that does not close the EventSource
OnErrorKeepsEventSource ==
    /\ mounted /\ esState # "closed"
    /\ connected' = FALSE
    /\ UNCHANGED <<streamVars, logs, esState, mounted, stats, endpoints, threatLevel,
                   hookVars, relayVars>>

\* eventSource.onerror
OnError ==
    /\ mounted /\ esState # "closed"
    /\ connected' = FALSE
    /\ esState' = "closed"
    /\ logs' = TableRender(logs).window
    /\ UNCHANGED <<streamVars, mounted, stats, endpoints, threatLevel, hookVars, relayVars>>

\* the cleanup returned by the effect
Unmount ==
    /\ mounted
    /\ mounted' = FALSE
    /\ esState' = "closed"
    /\ UNCHANGED <<streamVars, logs, connected, stats, endpoints, threatLevel, hookVars, relayVars>>

LogStreamNext == OnMessage \/ OnOpen \/ OnError \/ Unmount

InitLogStream == StreamInit /\ LogStreamInit /\ HookInit /\ RelayInit

SpecLogStream == InitLogStream /\ [][LogStreamNext]_vars

\* ------------------------------------------------------------------------
\* useLogStream hook
\* ------------------------------------------------------------------------
\* the updater passed to setLogs
HookSetLogsUpdater(prevLogs, newLog) == Append(prevLogs, newLog)

\* the EventSource of the hook connects (no onopen handler is registered)
HookOpen ==
    /\ hookMounted /\ hookEsState = "connecting"
    /\ hookEsState' = "open"
    /\ UNCHANGED <<streamVars, logStreamVars, hookLogs, hookError, hookLoading, hookMounted, relayVars>>

\* eventSource.onmessage
HookOnMessage ==
    /\ hookMounted /\ hookEsState = "open" /\ nmsg < MaxMsgs
    /\ nmsg' = nmsg + 1
    /\ LET parsed == JSONParse(NextData)
       IN  IF parsed.threw
           THEN UNCHANGED <<arrived, hookLogs>>
           ELSE /\ arrived' = Append(arrived, parsed.value)
                /\ hookLogs' = HookSetLogsUpdater(hookLogs, parsed.value)
    /\ UNCHANGED <<pattern, logStreamVars, hookError, hookLoading, hookEsState, hookMounted, relayVars>>

\* HookOnError of a handler that does not close the EventSource
HookOnErrorKeepsEventSource ==
    /\ hookMounted /\ hookEsState # "closed"
    /\ hookError' = "Error connecting to log stream"
    /\ UNCHANGED <<streamVars, logStreamVars, hookLogs, hookLoading, hookEsState,
                   hookMounted, relayVars>>

\* eventSource.onerror
HookOnError ==
    /\ hookMounted /\ hookEsState # "closed"
    /\ hookError' = "Error connecting to log stream"
    /\ hookEsState' = "closed"
    /\ UNCHANGED <<streamVars, logStreamVars, hookLogs, hookLoading, hookMounted, relayVars>>

\* the cleanup returned by the effect
HookUnmount ==
    /\ hookMounted
    /\ hookMounted' = FALSE
    /\ hookEsState' = "closed"
    /\ UNCHANGED <<streamVars, logStreamVars, hookLogs, hookError, hookLoading, relayVars>>

HookNext == HookOpen \/ HookOnMessage \/ HookOnError \/ HookUnmount

InitHook == StreamInit /\ LogStreamInit /\ HookInit /\ RelayInit

SpecHook == InitHook /\ [][HookNext]_vars

\* ------------------------------------------------------------------------
\* A page with one consumer of the log stream
\* ------------------------------------------------------------------------
\* the LogStream component is not on the page
LogStreamUnmounted ==
    /\ logs = <<>>
    /\ connected = FALSE
    /\ esState = "closed"
    /\ mounted = FALSE
    /\ stats = Render(<<>>).stats
    /\ endpoints = Render(<<>>).endpoints
    /\ threatLevel = Render(<<>>).threatLevel

\* no component on the page uses the hook
HookUnmounted ==
    /\ hookLogs = <<>>
    /\ hookError = "null"
    /\ hookLoading = FALSE
    /\ hookEsState = "closed"
    /\ hookMounted = FALSE

\* the EventSource belongs to the LogStream component or to the hook
InitConsumer ==
    /\ StreamInit /\ RelayInit
    /\ \/ LogStreamInit /\ HookUnmounted
       \/ LogStreamUnmounted /\ HookInit

ConsumerNext == LogStreamNext \/ HookNext

SpecConsumer == InitConsumer /\ [][ConsumerNext]_vars

\* Dashboard.handleNewLogEntry: the updater passed to setLogEntries.  The
\* handler is handed to LogStream as onNewLogEntry, which LogStream never
\* calls.
handleNewLogEntry(prevEntries, newLogEntry) == Append(prevEntries, newLogEntry)

\* ------------------------------------------------------------------------
\* express service: GET /logs/cloudfront
\* ------------------------------------------------------------------------
\* DataTargets of a handler shared by all attached requests
DataTargetsAllStreaming(r) == {q \in Requests : pc[q] = "streaming"}

\* DataTargets of a handler that also feeds the responses still waiting
\* for their own upstream connection
DataTargetsEveryRequest(r) == {q \in Requests : pc[q] \in {"connecting", "streaming"}}

\* the responses the 'data' handler registered for request r writes to:
\* the handler closes over the res of its own request
DataTargets(r) == {r}

\* ResWrite that lets the chunk overtake the one written last
ResWriteBeforeLast(written, chunk) ==
    IF written = <<>>
    THEN <<chunk>>
    ELSE SubSeq(written, 1, Len(written) - 1) \o <<chunk, written[Len(written)]>>

\* ResWrite that passes the chunk to the response twice
ResWriteTwice(written, chunk) == Append(Append(written, chunk), chunk)

\* ResWrite that puts the chunk in front of what was written
ResWriteInFront(written, chunk) == <<chunk>> \o written

\* res.write(chunk) on a response that has been written `written` so far
ResWrite(written, chunk) == Append(written, chunk)

\* CloseTargets of a 'close' handler that tears down every upstream stream
CloseTargetsEveryUpstream(r) == Requests

\* the upstream streams the 'close' handler registered for request r
\* destroys: the handler closes over the axiosResponse of its own request
CloseTargets(r) == {r}

\* Destroy that marks a stream destroyed whatever had become of it
DestroyWhateverState(state) == "destroyed"

\* axiosResponse.data.destroy()
Destroy(state) == IF state = "open" THEN "destroyed" ELSE state

\* the route handler up to the await: the span is started, the headers are
\* set and axios is asked for the upstream stream
Request(r) ==
    /\ pc[r] = "idle"
    /\ \A q \in Requests : q < r => pc[q] # "idle"
    /\ pc' = [pc EXCEPT ![r] = "connecting"]
    /\ axiosCalls' = [axiosCalls EXCEPT ![r] = @ + 1]
    /\ UNCHANGED <<upState, upRecv, attachMark, resWritten, resEnded, resStatus,
                   reqClosed, closeMark, spanEnds, chunkSeq, resDrained, frontendVars>>

\* the await resolves: the handlers for 'data', 'close' and 'error' are
\* registered
ConnectOk(r) ==
    /\ pc[r] = "connecting"
    /\ pc' = [pc EXCEPT ![r] = "streaming"]
    /\ upState' = [upState EXCEPT ![r] = "open"]
    /\ attachMark' = [attachMark EXCEPT ![r] = chunkSeq]
    /\ UNCHANGED <<axiosCalls, upRecv, resWritten, resEnded, resStatus, reqClosed,
                   closeMark, spanEnds, chunkSeq, resDrained, frontendVars>>

\* ConnectFail of a handler that asks axios again when the await rejects
ConnectFailRetries(r) ==
    /\ pc[r] = "connecting"
    /\ axiosCalls' = [axiosCalls EXCEPT ![r] = @ + 1]
    /\ UNCHANGED <<pc, upState, upRecv, attachMark, resWritten, resEnded, resStatus,
                   reqClosed, closeMark, spanEnds, chunkSeq, resDrained, frontendVars>>

\* the await rejects: the catch block
ConnectFail(r) ==
    /\ pc[r] = "connecting"
    /\ pc' = [pc EXCEPT ![r] = "failed"]
    /\ spanEnds' = [spanEnds EXCEPT ![r] = @ + 1]
    /\ resStatus' = [resStatus EXCEPT ![r] = 500]
    /\ resEnded' = [resEnded EXCEPT ![r] = TRUE]
    /\ UNCHANGED <<axiosCalls, upState, upRecv, attachMark, resWritten, reqClosed,
                   closeMark, chunkSeq, resDrained, frontendVars>>

\* 'data' fires on the upstream stream of request r
UpstreamData(r, payload) ==
    /\ pc[r] = "streaming" /\ upState[r] = "open"
    /\ chunkSeq < MaxChunks
    /\ payload = PayloadOf(chunkSeq + 1)
    /\ LET chunk == [seq |-> chunkSeq + 1, conn |-> r, data |-> payload]
       IN  /\ chunkSeq' = chunkSeq + 1
           /\ upRecv' = [upRecv EXCEPT ![r] = Append(@, chunk)]
           /\ resWritten' = [q \in Requests |->
                                IF q \in DataTargets(r)
                                THEN ResWrite(resWritten[q], chunk)
                                ELSE resWritten[q]]
    /\ UNCHANGED <<pc, axiosCalls, upState, attachMark, resEnded, resStatus,
                   reqClosed, closeMark, spanEnds, resDrained, frontendVars>>

\* UpstreamError of a handler that does not call res.end()
UpstreamErrorLeavesResponseOpen(r) ==
    /\ pc[r] = "streaming" /\ upState[r] = "open"
    /\ upState' = [upState EXCEPT ![r] = "errored"]
    /\ spanEnds' = [spanEnds EXCEPT ![r] = @ + 1]
    /\ UNCHANGED <<pc, axiosCalls, upRecv, attachMark, resWritten, resEnded, resStatus,
                   reqClosed, closeMark, chunkSeq, resDrained, frontendVars>>

\* 'error' fires on the upstream stream of request r
UpstreamError(r) ==
    /\ pc[r] = "streaming" /\ upState[r] = "open"
    /\ upState' = [upState EXCEPT ![r] = "errored"]
    /\ spanEnds' = [spanEnds EXCEPT ![r] = @ + 1]
    /\ resEnded' = [resEnded EXCEPT ![r] = TRUE]
    /\ UNCHANGED <<pc, axiosCalls, upRecv, attachMark, resWritten, resStatus,
                   reqClosed, closeMark, chunkSeq, resDrained, frontendVars>>

\* the upstream stream of request r ends: 'end' has no listener
UpstreamEnd(r) ==
    /\ pc[r] = "streaming" /\ upState[r] = "open"
    /\ upState' = [upState EXCEPT ![r] = "ended"]
    /\ UNCHANGED <<pc, axiosCalls, upRecv, attachMark, resWritten, resEnded,
                   resStatus, reqClosed, closeMark, spanEnds, chunkSeq, resDrained, frontendVars>>

\* 'close' fires on req: its listener exists once the await has resolved
ClientClose(r) ==
    /\ pc[r] # "idle" /\ ~reqClosed[r]
    /\ reqClosed' = [reqClosed EXCEPT ![r] = TRUE]
    /\ closeMark' = [closeMark EXCEPT ![r] = chunkSeq]
    /\ IF pc[r] = "streaming"
       THEN /\ upState' = [q \in Requests |->
                              IF q \in CloseTargets(r)
                              THEN Destroy(upState[q])
                              ELSE upState[q]]
            /\ spanEnds' = [spanEnds EXCEPT ![r] = @ + 1]
       ELSE UNCHANGED <<upState, spanEnds>>
    /\ UNCHANGED <<pc, axiosCalls, upRecv, attachMark, resWritten, resEnded,
                   resStatus, chunkSeq, resDrained, frontendVars>>

\* the connection of request r takes the next buffered chunk
ClientDrain(r) ==
    /\ ~reqClosed[r]
    /\ resDrained[r] < Len(resWritten[r])
    /\ resDrained' = [resDrained EXCEPT ![r] = @ + 1]
    /\ UNCHANGED <<pc, axiosCalls, upState, upRecv, attachMark, resWritten, resEnded,
                   resStatus, reqClosed, closeMark, spanEnds, chunkSeq, frontendVars>>

RelayNext ==
    \E r \in Requests :
        \/ Request(r)
        \/ ConnectOk(r)
        \/ ConnectFail(r)
        \/ \E payload \in Payloads : UpstreamData(r, payload)
        \/ UpstreamError(r)
        \/ UpstreamEnd(r)
        \/ ClientClose(r)

\* the dashboard is not running
InitRelay ==
    /\ pattern = [i \in 1..PatLen |-> WireMalformed]
    /\ nmsg = 0
    /\ arrived = <<>>
    /\ LogStreamInit /\ HookInit /\ RelayInit

SpecRelay == InitRelay /\ [][RelayNext]_vars

\* the requests of the run in which the reading of the clients is followed
ReadingRequests == {1, 2}

\* the express service and the reading of its clients
ReadingNext ==
    \E r \in ReadingRequests :
        \/ Request(r)
        \/ ConnectOk(r)
        \/ ConnectFail(r)
        \/ \E payload \in Payloads : UpstreamData(r, payload)
        \/ UpstreamError(r)
        \/ UpstreamEnd(r)
        \/ ClientClose(r)
        \/ ClientDrain(r)

SpecReading == InitRelay /\ [][ReadingNext]_vars

\* every handler that is due runs
FairSpecRelay == SpecRelay /\ WF_vars(RelayNext)

\* ------------------------------------------------------------------------
\* Properties of the LogStream window and its statistics
\* ------------------------------------------------------------------------
\* the last Min(n, Len(s)) elements of s
LastOf(s, n) == SubSeq(s, Len(s) - Min(n, Len(s)) + 1, Len(s))

\* n is num / den rounded to the nearest integer, ties up
IsRounded(n, num, den) ==
    /\ 2 * den * n <= 2 * num + den
    /\ 2 * num + den < 2 * den * (n + 1)

NumErrors(w) == Cardinality({i \in 1..Len(w) : w[i].status_code >= 400})
NumSlow(w) == Cardinality({i \in 1..Len(w) : w[i].latency_ms > 300})
\* the latencies of w added up value by value
RECURSIVE WeightedSum(_, _)
WeightedSum(w, values) ==
    IF values = {} THEN 0
    ELSE LET v == CHOOSE x \in values : TRUE
         IN  v * Cardinality({i \in 1..Len(w) : w[i].latency_ms = v})
             + WeightedSum(w, values \ {v})
TotalLatency(w) == WeightedSum(w, {w[i].latency_ms : i \in 1..Len(w)})
EndpointsIn(w) == {w[i].endpoint : i \in 1..Len(w)}
Occurrences(w, ep) == Cardinality({i \in 1..Len(w) : w[i].endpoint = ep})
FirstIndex(w, ep) ==
    CHOOSE i \in 1..Len(w) :
        /\ w[i].endpoint = ep
        /\ \A j \in 1..(i - 1) : w[j].endpoint # ep
Range(s) == {s[i] : i \in 1..Len(s)}
CountSum(entries) ==
    LET f[i \in 0..Len(entries)] ==
            IF i = 0 THEN 0 ELSE f[i - 1] + entries[i][2]
    IN  f[Len(entries)]
PermutationsOf(s) ==
    {[i \in 1..Len(s) |-> s[f[i]]] : f \in Permutations(1..Len(s))}

\* C1: after any number N of ingested messages the window has length
\* min(N, 100) and is exactly the last min(N, 100) ingested events, in
\* arrival order, whatever their timestamps.
C1_WindowIsLastArrivals ==
    /\ Len(logs) = Min(Len(arrived), 100)
    /\ logs = LastOf(arrived, 100)

\* more than 100 events were ingested, some out of timestamp order, and
\* the oldest one is gone from the window
C1_Witness ==
    /\ Len(arrived) = 102
    /\ Len(logs) = 100
    /\ logs[1] # arrived[1]
    /\ \E i \in 1..99 : logs[i].timestamp > logs[i + 1].timestamp

\* C3: in every state the rendered statistics are the ones computed from
\* scratch over the last min(N, 100) ingested events, the just-ingested
\* one included and evicted ones excluded.
C3_AggregatesFollowWindow ==
    LET w == LastOf(arrived, 100)
    IN  /\ stats.requestCount = Len(w)
        /\ IF Len(w) = 0
           THEN stats.avgLatency = 0 /\ stats.errorRate = 0 /\ threatLevel = 0
           ELSE /\ IsRounded(stats.avgLatency, TotalLatency(w) * 100, Len(w))
                /\ IsRounded(stats.errorRate, NumErrors(w) * 1000, Len(w))
                /\ IsRounded(threatLevel,
                             (NumErrors(w) * 6 + NumSlow(w) * 4) * 10, Len(w))
        /\ Range(endpoints) = {<<ep, Occurrences(w, ep)>> : ep \in EndpointsIn(w)}
        /\ Len(endpoints) = Cardinality(EndpointsIn(w))

\* an ingest has evicted an error event and appended a successful one
C3_Witness ==
    /\ Len(arrived) = 101
    /\ arrived[1].status_code >= 400
    /\ arrived[101].status_code < 400
    /\ stats.requestCount = 100

\* C4: for a non-empty window errorRate and highLatencyRate lie in [0,1],
\* the threat score lies in [0,100] and is
\* round(min(100, (errorRate*0.6 + highLatencyRate*0.4)*100)); the window
\* [{/a,200,50},{/a,500,400}] has both rates 0.5 and threat score 50.
C4_ThreatScore ==
    logs # <<>> =>
        /\ 0 <= ErrorCount(logs) /\ ErrorCount(logs) <= Len(logs)
        /\ 0 <= HighLatencyCount(logs) /\ HighLatencyCount(logs) <= Len(logs)
        /\ threatLevel \in 0..100
        /\ IsRounded(threatLevel,
                     Min(100 * Len(logs),
                         (NumErrors(logs) * 6 + NumSlow(logs) * 4) * 10),
                     Len(logs))
        /\ (/\ Len(logs) = 2
            /\ logs[1].endpoint = "/a" /\ logs[1].status_code = 200
            /\ logs[1].latency_ms = 50
            /\ logs[2].endpoint = "/a" /\ logs[2].status_code = 500
            /\ logs[2].latency_ms = 400)
           => /\ 2 * ErrorCount(logs) = Len(logs)
              /\ 2 * HighLatencyCount(logs) = Len(logs)
              /\ threatLevel = 50

\* the window of the scenario
C4_Witness ==
    /\ Len(logs) = 2
    /\ logs[1].endpoint = "/a" /\ logs[1].status_code = 200
    /\ logs[1].latency_ms = 50
    /\ logs[2].endpoint = "/a" /\ logs[2].status_code = 500
    /\ logs[2].latency_ms = 400
    /\ threatLevel = 50

\* C5: while the window is empty the statistics are zero-valued and
\* endpointCounts is empty.
C5_EmptyWindow ==
    logs = <<>> =>
        /\ stats.avgLatency = 0
        /\ stats.errorRate = 0
        /\ threatLevel = 0
        /\ endpoints = <<>>

\* the component is connected and has rendered an empty window
C5_Witness == logs = <<>> /\ connected /\ stats.requestCount = 0

\* the entries of endpoints count the window: one entry per endpoint in
\* the window, with its number of occurrences
EndpointsCountWindow ==
    /\ \A i \in 1..Len(endpoints) :
          /\ endpoints[i][1] \in EndpointsIn(logs)
          /\ endpoints[i][2] = Occurrences(logs, endpoints[i][1])
    /\ \A i, j \in 1..Len(endpoints) :
          endpoints[i][1] = endpoints[j][1] => i = j
    /\ {endpoints[i][1] : i \in 1..Len(endpoints)} = EndpointsIn(logs)
    /\ CountSum(endpoints) = Len(logs)

\* C6 as stated: endpoints counts the window and is the same result for
\* every permutation of the window's entries.
C6_SameForEveryPermutation ==
    /\ EndpointsCountWindow
    /\ Len(logs) <= MaxPermLen =>
          \A p \in PermutationsOf(logs) : Endpoints(p) = endpoints

\* C6 (amended): endpoints counts the window; every permutation of the
\* window yields the same set of [endpoint, count] entries, and the
\* entries are listed in the order in which the endpoints first occur in
\* the window.
C6_SameEntriesFirstSeenOrder ==
    /\ EndpointsCountWindow
    /\ \A i, j \in 1..Len(endpoints) :
          i < j => FirstIndex(logs, endpoints[i][1]) < FirstIndex(logs, endpoints[j][1])
    /\ Len(logs) <= MaxPermLen =>
          \A p \in PermutationsOf(logs) : Range(Endpoints(p)) = Range(endpoints)

\* a window of three entries over two endpoints
C6_Witness ==
    /\ Len(logs) = 3
    /\ Cardinality(EndpointsIn(logs)) = 2
    /\ Len(endpoints) = 2

\* ------------------------------------------------------------------------
\* Properties of the useLogStream hook
\* ------------------------------------------------------------------------
\* C2: no consumer-side log buffer ever holds more than 100 entries.
C2_BuffersBounded ==
    /\ Len(logs) <= 100
    /\ Len(hookLogs) <= 100

\* ------------------------------------------------------------------------
\* Properties of the express service
\* ------------------------------------------------------------------------
OpenUpstreams == {r \in Requests : upState[r] = "open"}

\* C7: at every moment the chunks written to a subscriber's response are
\* the chunks its upstream 'data' events delivered since it attached,
\* unmodified and in the same order.
C7_WritesCopyUpstream ==
    \A r \in Requests :
        /\ resWritten[r] = upRecv[r]
        /\ \A i, j \in 1..Len(resWritten[r]) :
              i < j => resWritten[r][i].seq < resWritten[r][j].seq

\* a subscriber has been forwarded two different chunks
C7_Witness ==
    \E r \in Requests :
        /\ Len(upRecv[r]) = 2
        /\ Len(resWritten[r]) = 2
        /\ resWritten[r][1].data # resWritten[r][2].data

\* C8: when the upstream stream ends, cleanly or by an error, while its
\* subscriber is attached, the subscriber's response is eventually ended;
\* and nothing is written to a response after it was ended.
C8_UpstreamEndEndsResponse ==
    /\ \A r \in Requests :
          (upState[r] \in {"ended", "errored"} /\ ~reqClosed[r]) ~> resEnded[r]
    /\ [][\A r \in Requests : resEnded[r] => resWritten'[r] = resWritten[r]]_vars

C10_NoReplay ==
    \A r \in Requests :
        \A i \in 1..Len(resWritten[r]) : resWritten[r][i].seq > attachMark[r]

\* a subscriber attached after a chunk had been relayed to an earlier one
\* and has been written a later chunk
C10_Witness ==
    \E r, q \in Requests :
        /\ q < r
        /\ Len(resWritten[q]) >= 1
        /\ attachMark[r] >= resWritten[q][1].seq
        /\ Len(resWritten[r]) >= 1

\* the chunks of s that reached the service after 'close' fired on req b
AfterClose(s, b) == SelectSeq(s, LAMBDA c : c.seq > closeMark[b])

\* C11: when subscriber B has disconnected, every chunk the upstream
\* streams of the other subscribers deliver afterwards is written to them,
\* unmodified and in order, and no upstream stream is destroyed except by
\* the disconnect of its own subscriber.
C11_CloseIsolated ==
    \A b \in Requests :
        reqClosed[b] =>
            \A a \in Requests \ {b} :
                /\ AfterClose(resWritten[a], b) = AfterClose(upRecv[a], b)
                /\ upState[a] = "destroyed" => reqClosed[a]

\* B disconnected after chunk 1 while A (which had been written chunk 1)
\* and C (attached before chunk 1) were attached; A has been written
\* chunk 2 since and the upstream streams of A and C are still open
C11_Witness ==
    \E a, b, c \in Requests :
        /\ a # b /\ a # c /\ b # c
        /\ reqClosed[b] /\ upState[b] = "destroyed" /\ closeMark[b] = 1
        /\ ~reqClosed[a] /\ ~reqClosed[c]
        /\ upState[a] = "open" /\ upState[c] = "open"
        /\ attachMark[c] = 0
        /\ Len(resWritten[a]) = 2
        /\ resWritten[a][1].seq = 1 /\ resWritten[a][2].seq = 2

\* C12: a request whose upstream connection could not be established is
\* answered with status 500 and stays failed: nothing is ever written to
\* its response, it has no upstream stream (so no 'data' or 'error'
\* handler ever runs for it), a later 'close' of the request runs no
\* handler (the span stays ended once, by the catch block), and axios was
\* asked once and is never asked again.
C12_ConnectFailureTerminal ==
    \A r \in Requests :
        /\ axiosCalls[r] <= 1
        /\ resStatus[r] \in {200, 500}
        /\ resStatus[r] = 500 <=> pc[r] = "failed"
        /\ pc[r] = "failed" =>
              /\ resEnded[r]
              /\ resWritten[r] = <<>> /\ upRecv[r] = <<>>
              /\ upState[r] = "none"
              /\ axiosCalls[r] = 1
              /\ spanEnds[r] = 1

\* a request failed to connect, its client has gone since, and the
\* service has relayed two chunks to other requests
C12_Witness ==
    \E r \in Requests :
        /\ pc[r] = "failed" /\ resStatus[r] = 500
        /\ reqClosed[r]
        /\ chunkSeq = 2 /\ closeMark[r] = 2

\* C13: once the upstream stream of a request has raised 'error', the
\* response of every subscriber fed from that stream is ended, and from
\* then on the stream stays errored, axios is not asked again for that
\* request and nothing more is written to the response; chunks are relayed
\* afterwards only on the upstream streams of other requests.
C13_UpstreamErrorTerminal ==
    /\ [](\A r \in Requests :
             upState[r] = "errored" =>
                 /\ \A q \in DataTargets(r) : resEnded[q]
                 /\ axiosCalls[r] = 1)
    /\ [][\A r \in Requests :
             upState[r] = "errored" =>
                 /\ upState'[r] = "errored"
                 /\ axiosCalls'[r] = axiosCalls[r]
                 /\ resWritten'[r] = resWritten[r]
                 /\ resEnded'[r]]_vars

\* the upstream stream of a request failed after one chunk, and the
\* next chunk was relayed to another request on its own upstream stream
C13_Witness ==
    \E r, q \in Requests :
        /\ r # q
        /\ upState[r] = "errored" /\ resEnded[r]
        /\ Len(resWritten[r]) = 1 /\ resWritten[r][1].seq = 1
        /\ upState[q] = "open" /\ ~resEnded[q]
        /\ Len(resWritten[q]) = 1 /\ resWritten[q][1].seq = 2

\* C14: no upstream stream is open whose request has closed, whenever
\* the 'close' fired relative to the connect.
C14_NoOpenUpstreamOfClosedRequest ==
    \A r \in Requests : reqClosed[r] => upState[r] # "open"

\* C17: once 'close' has fired on a request, no chunk is passed to
\* res.write of its response any more.
C17_NoWriteAfterClose ==
    [][\A r \in Requests : reqClosed[r] => resWritten'[r] = resWritten[r]]_vars

\* the places in what was written to request r that hold the k-th chunk
\* the service received
WritesOf(r, k) == {i \in 1..Len(resWritten[r]) : resWritten[r][i].seq = k}

\* C18: every chunk the service received was written at most once to
\* each response.
C18_AtMostOnce ==
    \A r \in Requests :
        \A k \in 1..chunkSeq : Cardinality(WritesOf(r, k)) <= 1

\* a subscriber has been written chunks 1 and 2, once each, while another
\* one attached after chunk 1 and disconnected before chunk 2
C18_Witness ==
    \E r, q \in Requests :
        /\ r # q
        /\ Cardinality(WritesOf(r, 1)) = 1 /\ Cardinality(WritesOf(r, 2)) = 1
        /\ attachMark[q] = 1 /\ upState[q] = "destroyed" /\ closeMark[q] = 1

\* the writes to the response of request r that failed: res.write was
\* called after the connection of the request had closed, so the chunk
\* was discarded
FailedWrites(r) ==
    {i \in 1..Len(resWritten[r]) :
        reqClosed[r] /\ resWritten[r][i].seq > closeMark[r]}

\* C19: a failed write to a subscriber ends its subscription: no second
\* chunk is passed to a response after a write to it has failed.
C19_FailedWriteEndsSubscription ==
    \A r \in Requests : Cardinality(FailedWrites(r)) <= 1

\* what the teardown of a subscriber acts on: the upstream stream of the
\* request and its span (ended or not, however often end() was called)
TeardownState(r) == [up |-> upState[r], spanEnded |-> spanEnds[r] >= 1]

\* the body of the 'close' handler, on that state
Teardown(st) == [up |-> Destroy(st.up), spanEnded |-> TRUE]

\* C20: the teardown of a subscriber is idempotent (run on its own result
\* it changes nothing); when it runs after the 'error' handler has ended
\* the response, the upstream stream, the span, the response and what was
\* written to it are as the 'error' handler left them; and a stream that
\* was torn down while it delivered chunks stays destroyed and delivers
\* nothing more.
C20_TeardownIdempotent ==
    /\ [](\A r \in Requests :
             Teardown(Teardown(TeardownState(r))) = Teardown(TeardownState(r)))
    /\ [][\A r \in Requests :
             (~reqClosed[r] /\ reqClosed'[r] /\ upState[r] = "errored") =>
                 /\ TeardownState(r)' = TeardownState(r)
                 /\ Teardown(TeardownState(r)) = TeardownState(r)
                 /\ UNCHANGED <<pc, upRecv, resWritten, resEnded, resStatus, axiosCalls>>]_vars
    /\ [][\A r \in Requests :
             upState[r] = "destroyed" =>
                 /\ upState'[r] = "destroyed"
                 /\ resWritten'[r] = resWritten[r]
                 /\ TeardownState(r)' = TeardownState(r)]_vars

\* the upstream stream of a request failed after a chunk had been
\* written, the 'error' handler ended the response, and the 'close'
\* handler of the request ran afterwards
C20_Witness ==
    \E r \in Requests :
        /\ upState[r] = "errored" /\ resEnded[r]
        /\ reqClosed[r]
        /\ spanEnds[r] = 2
        /\ Len(resWritten[r]) = 1

C26_SpanEndedOnce ==
    \A r \in Requests :
        /\ spanEnds[r] <= 1
        /\ pc[r] = "failed" => spanEnds[r] = 1
        /\ upState[r] = "destroyed" => spanEnds[r] = 1

\* the chunks passed to res.write of request r that its connection has
\* not taken yet: they are queued in the response
Buffered(r) == Len(resWritten[r]) - resDrained[r]

\* C21: the chunks queued for a subscriber that does not read never
\* exceed the high-water mark of its response.
C21_BufferBounded ==
    \A r \in Requests : Buffered(r) <= HighWaterMark

\* ------------------------------------------------------------------------
\* Properties of the consumers of the log stream
\* ------------------------------------------------------------------------
\* event.data of the i-th message of the stream
WireAt(i) == pattern[((i - 1) % PatLen) + 1]

\* the text is a serialized log event
Decodable(data) == data \in WireEvents

\* the log events among the first n messages, in order
DecodedUpTo(n) ==
    LET wires == SelectSeq([i \in 1..n |-> WireAt(i)], Decodable)
    IN  [i \in 1..Len(wires) |->
            [endpoint |-> wires[i][1], status_code |-> wires[i][2],
             latency_ms |-> wires[i][3], timestamp |-> wires[i][4]]]

\* C15: a message whose data is no serialized log event changes neither
\* the window nor any aggregate (nor the hook's list), and leaves the
\* consumer connected with its EventSource open; so the window is always
\* the last (at most 100) log events among all messages received, the
\* ones after an undecodable message included.
C15_UndecodableMessageSkipped ==
    /\ [](\/ hookLogs = <<>> /\ logs = LastOf(DecodedUpTo(nmsg), 100)
          \/ logs = <<>> /\ hookLogs = DecodedUpTo(nmsg))
    /\ [][(nmsg' # nmsg /\ ~Decodable(NextData)) =>
             /\ UNCHANGED <<logs, stats, endpoints, threatLevel, connected, esState>>
             /\ UNCHANGED <<hookLogs, hookError, hookEsState>>
             /\ mounted => (esState' = "open" /\ connected')
             /\ hookMounted => (hookEsState' = "open" /\ hookError' = "null")]_vars

\* the LogStream component has received 102 messages, 34 of them
\* undecodable, the last but one among these; the last message is a log
\* event and is the newest of the 68 entries of the window
C15_Witness ==
    /\ nmsg = 102
    /\ ~Decodable(WireAt(nmsg - 1))
    /\ Decodable(WireAt(nmsg))
    /\ connected /\ esState = "open"
    /\ Len(logs) = 68
    /\ logs[Len(logs)] = DecodedUpTo(nmsg)[Len(DecodedUpTo(nmsg))]

\* C16: while the component is mounted, connected is true exactly while
\* its EventSource is open; once the error handler has run (the
\* EventSource of the mounted component is closed) connected is false, and
\* from a closed EventSource on nothing changes any more: it stays closed,
\* connected keeps its value and no message reaches the window; and in
\* every state the three rendered aggregates are the ones computed from
\* the same, current window.
C16_LiveOrTerminal ==
    /\ [](/\ mounted => (connected <=> esState = "open")
          /\ (mounted /\ esState = "closed") => ~connected
          /\ stats = Stats(logs)
          /\ endpoints = Endpoints(logs)
          /\ threatLevel = ThreatLevel(logs))
    /\ [][esState = "closed" =>
             /\ esState' = "closed"
             /\ connected' = connected
             /\ UNCHANGED <<logs, nmsg, arrived, stats, endpoints, threatLevel>>]_vars

\* the error handler has run on a connected component whose window was
\* full, before the stream had delivered all its messages
C16_Witness ==
    /\ mounted /\ esState = "closed" /\ ~connected
    /\ Len(logs) = 100
    /\ nmsg = 101

\* C23: the window changes only in a step of onmessage that decodes a
\* log event, and then to the last 99 entries followed by that event;
\* onopen, onerror, the computation of the aggregates and the rendering
\* of the table leave its entries and their order as they are.
C23_OnlyIngestChangesWindow ==
    /\ [][logs' # logs =>
             /\ mounted /\ esState = "open" /\ esState' = "open"
             /\ nmsg' = nmsg + 1
             /\ Decodable(NextData)
             /\ logs' = Append(LastOf(logs, 99), DecodedUpTo(nmsg')[Len(DecodedUpTo(nmsg'))])]_vars
    /\ [][(esState' # esState \/ connected' # connected) => logs' = logs]_vars

\* the error handler has run, and the table has been rendered again,
\* with three entries in the window, still in arrival order
C23_Witness ==
    /\ mounted /\ esState = "closed"
    /\ Len(logs) = 3
    /\ logs[1] # logs[3]
    /\ logs = DecodedUpTo(nmsg)
    /\ TableRender(logs).rows[1] = logs[3]

\* C24: connected is false until onopen fires; it becomes true only in a
\* step of onopen; a step of the error handler leaves it false; so while
\* the component is mounted connected implies an open EventSource, and
\* where connected is true the EventSource is open or was closed by the
\* cleanup of the effect, never by the error handler.
C24_ConnectedMeansOpen ==
    /\ []((mounted /\ esState = "connecting") => ~connected)
    /\ []((mounted /\ esState = "closed") => ~connected)
    /\ [](connected => (esState = "open" \/ (~mounted /\ esState = "closed")))
    /\ [][(connected' /\ ~connected) =>
             (esState = "connecting" /\ esState' = "open")]_vars
    /\ [][(mounted' /\ esState # "closed" /\ esState' = "closed") => ~connected']_vars

\* the component is connected and has received every message of the run
C24_Witness ==
    /\ mounted /\ connected /\ esState = "open"
    /\ nmsg = 102

\* C25: requestCount is the length of the window, is at most 100, and is
\* the sum of the counts of the endpoints entries.
C25_RequestCount ==
    /\ stats.requestCount = Len(logs)
    /\ stats.requestCount <= 100
    /\ CountSum(endpoints) = stats.requestCount

\* 102 events were ingested, over two endpoints at least; the window is
\* full and two events have been evicted
C25_Witness ==
    /\ Len(arrived) = 102
    /\ stats.requestCount = 100
    /\ Len(endpoints) >= 2

\* C27: in the hook, the step of the error handler sets error and leaves
\* logs as it is; wherever error is set the EventSource is closed; and
\* from then on error, logs and the closed EventSource stay as they are
\* and no further message is dispatched.
C27_HookErrorTerminal ==
    /\ [](hookError # "null" =>
             /\ hookError = "Error connecting to log stream"
             /\ hookEsState = "closed")
    /\ [][(hookError = "null" /\ hookError' # "null") => hookLogs' = hookLogs]_vars
    /\ [][hookError # "null" =>
             /\ hookError' = hookError
             /\ hookLogs' = hookLogs
             /\ hookEsState' = "closed"
             /\ nmsg' = nmsg]_vars

\* the error handler of the hook has run after 101 log events were
\* collected, before the stream had delivered all its messages
C27_Witness ==
    /\ hookMounted
    /\ hookError = "Error connecting to log stream"
    /\ hookEsState = "closed"
    /\ Len(hookLogs) = 101
    /\ nmsg = 101

====
